---- MODULE Spec2Model ----
(***************************************************************************)
(* AgnosticBrainDecoder (brainwavestonaturallanguage.js): feature          *)
(* extraction, label mapping, dual-classifier prediction, definition       *)
(* lookup, concept grounding and the processAndPredict pipeline.           *)
(*                                                                         *)
(* JavaScript values are encoded as follows.  A plain object is a sequence *)
(* of <<key, value>> pairs with distinct string keys, in insertion order;  *)
(* OwnKeys gives the order in which Object.keys / Object.entries visit it. *)
(* The number-typed undefined and NaN are the integers UndefinedIndex and  *)
(* NaN, which lie outside the ranges of indices and scores; the word-typed *)
(* undefined is the string Undefined.  Classifier scores are counted in    *)
(* quarters, so that the mean of two scores is again an integer.           *)
(***************************************************************************)
EXTENDS Integers, Sequences, FiniteSets, TLC

\* ------------------------------------------------------------------ bounds
MaxLabels == 2
MaxChannels == 3
MaxSamples == 1
MaxClasses == 3

Words == {"focus", "relax"}
Amplitudes == {1, 2}
ScoreVals == {0, 2}

\* ------------------------------------------------------- JavaScript values
Undefined == "<undefined>"
UndefinedIndex == -1
NaN == -2

Digits == <<"0", "1", "2", "3", "4", "5", "6", "7", "8", "9">>

\* String(v) / ToPropertyKey(v) of a number-typed value
KeyStr(v) ==
    IF v = UndefinedIndex THEN "undefined"
    ELSE IF v = NaN THEN "NaN"
    ELSE Digits[v + 1]

\* ToPropertyKey of a word-typed value
WordKey(w) == IF w = Undefined THEN "undefined" ELSE w

IsIndexKey(k) == \E i \in 1..Len(Digits) : Digits[i] = k

KeyNum(k) == (CHOOSE i \in 1..Len(Digits) : Digits[i] = k) - 1

Range(s) == {s[i] : i \in DOMAIN s}

SeqsUpTo(S, n) == UNION {[1..m -> S] : m \in 0..n}

ObjHas(o, k) == \E i \in DOMAIN o : o[i][1] = k

ObjGetOr(o, k, missing) ==
    IF ObjHas(o, k) THEN o[CHOOSE i \in DOMAIN o : o[i][1] = k][2] ELSE missing

\* o[k] = v: an existing key keeps its place, a new key is added last
ObjSet(o, k, v) ==
    IF ObjHas(o, k)
    THEN [i \in DOMAIN o |-> IF o[i][1] = k THEN <<k, v>> ELSE o[i]]
    ELSE Append(o, <<k, v>>)

RECURSIVE FromEntriesFrom(_, _)
FromEntriesFrom(o, es) ==
    IF es = <<>> THEN o
    ELSE FromEntriesFrom(ObjSet(o, es[1][1], es[1][2]), Tail(es))

\* Object.fromEntries
FromEntries(es) == FromEntriesFrom(<<>>, es)

RECURSIVE SortedIndexKeys(_)
SortedIndexKeys(S) ==
    IF S = {} THEN <<>>
    ELSE LET m == CHOOSE k \in S : \A j \in S : KeyNum(k) <= KeyNum(j)
         IN  <<m>> \o SortedIndexKeys(S \ {m})

RECURSIVE SelectKeys(_, _)
SelectKeys(o, wantIndex) ==
    IF o = <<>> THEN <<>>
    ELSE (IF IsIndexKey(o[1][1]) = wantIndex THEN <<o[1][1]>> ELSE <<>>)
         \o SelectKeys(Tail(o), wantIndex)

\* Object.keys: integer-like keys in ascending order, then the other keys in
\* insertion order
OwnKeys(o) ==
    SortedIndexKeys(Range(SelectKeys(o, TRUE))) \o SelectKeys(o, FALSE)

KeySet(o) == {o[i][1] : i \in DOMAIN o}

\* Object.entries
Entries(o, missing) ==
    LET ks == OwnKeys(o) IN [i \in DOMAIN ks |-> <<ks[i], ObjGetOr(o, ks[i], missing)>>]

\* a JavaScript comparison x > y of two numbers, false when either is NaN
JsGt(x, y) == x # NaN /\ y # NaN /\ x > y

\* x + y, then / 2; undefined + number is NaN and NaN propagates
JsMean(x, y) ==
    IF x \in {NaN, UndefinedIndex} \/ y \in {NaN, UndefinedIndex} THEN NaN
    ELSE (x + y) \div 2

Ok(v) == [threw |-> FALSE, value |-> v]
Throw == [threw |-> TRUE, value |-> <<>>]

\* ------------------------------------------------------- feature extraction
ThetaBand == [name |-> "theta", lowFreq |-> 4, highFreq |-> 8]
AlphaBand == [name |-> "alpha", lowFreq |-> 8, highFreq |-> 13]
BandConfigs == {<<ThetaBand>>, <<ThetaBand, AlphaBand>>}
DecoderBands == <<ThetaBand, AlphaBand>>

Channels == SeqsUpTo(Amplitudes, MaxSamples)
RawSamples == SeqsUpTo(Channels, MaxChannels)

RECURSIVE SumSquares(_)
SumSquares(data) ==
    IF data = <<>> THEN 0 ELSE data[1] * data[1] + SumSquares(Tail(data))

\* One value per band: mean(data .* data) * (lowFreq + highFreq) / 2, kept as
\* the fraction <<numerator, denominator>>.  mathjs.mean of an empty array
\* throws; with no band the loop body never runs.
ExtractWeightedBandPower(bands, data) ==
    IF bands = <<>> THEN Ok(<<>>)
    ELSE IF data = <<>> THEN Throw
    ELSE Ok([b \in DOMAIN bands |->
               <<SumSquares(data) * (bands[b].lowFreq + bands[b].highFreq),
                 Len(data) * 2>>])

RECURSIVE PreprocessData(_, _)
PreprocessData(bands, rawData) ==
    IF rawData = <<>> THEN Ok(<<>>)
    ELSE LET channelFeatures == ExtractWeightedBandPower(bands, rawData[1])
             rest == PreprocessData(bands, Tail(rawData))
         IN  IF channelFeatures.threw \/ rest.threw THEN Throw
             ELSE Ok(channelFeatures.value \o rest.value)

\* data.slice(0, Math.floor(data.length / 2)) of the sample, a list of channels
ExtractPhoneticFeatures(bands, data) ==
    PreprocessData(bands, SubSeq(data, 1, Len(data) \div 2))

\* data.slice(Math.floor(data.length / 2))
ExtractSemanticFeatures(bands, data) ==
    PreprocessData(bands, SubSeq(data, Len(data) \div 2 + 1, Len(data)))

\* ------------------------------------------------------------ label mapping
RECURSIVE UniqueFrom(_, _)
UniqueFrom(seen, y) ==
    IF y = <<>> THEN seen
    ELSE UniqueFrom(IF y[1] \in Range(seen) THEN seen ELSE Append(seen, y[1]), Tail(y))

\* [...new Set(y)]: the distinct words in order of first occurrence
UniqueWords(y) == UniqueFrom(<<>>, y)

\* faulty variant: the index is the position in y, not in the distinct words
BuildWordMappingByPosition(y) ==
    FromEntries([i \in DOMAIN y |-> <<WordKey(y[i]), i - 1>>])

\* Object.fromEntries(uniqueWords.map((word, i) => [word, i]))
BuildWordMapping(y) ==
    LET uniqueWords == UniqueWords(y)
    IN  FromEntries([i \in DOMAIN uniqueWords |-> <<WordKey(uniqueWords[i]), i - 1>>])

\* faulty variant: the new entries are merged into the mapping held so far
AssignedWordMappingMerging(mapping, y) ==
    LET es == Entries(BuildWordMapping(y), UndefinedIndex)
    IN  FromEntriesFrom(mapping, es)

\* line 52: this.wordMapping = ..., whatever mapping was held before
AssignedWordMapping(mapping, y) == BuildWordMapping(y)

\* y.map(word => this.wordMapping[word])
YEncoded(mapping, y) ==
    [i \in DOMAIN y |-> ObjGetOr(mapping, WordKey(y[i]), UndefinedIndex)]

\* Object.fromEntries(Object.entries(this.wordMapping).map(([k, v]) => [v, k]))
InverseMapping(mapping) ==
    LET es == Entries(mapping, UndefinedIndex)
    IN  FromEntries([i \in DOMAIN es |-> <<KeyStr(es[i][2]), es[i][1]>>])

\* inverseMapping[predictedIndex]
DecodeIndex(mapping, predictedIndex) ==
    ObjGetOr(InverseMapping(mapping), predictedIndex, Undefined)

\* -------------------------------------------------------------- classifiers
\* A brain.js network is known here by the output keys it was trained on; an
\* untrained network has none.
UntrainedClassifier == [keys |-> {}]

\* the keys of the targets {[yEncoded[i]]: 1}, one per training sample; a
\* sample beyond the end of yEncoded gets the key of undefined
TrainingOutputKeys(nSamples, yEncoded) ==
    {KeyStr(IF i <= Len(yEncoded) THEN yEncoded[i] ELSE UndefinedIndex) : i \in 1..nSamples}

KeySeq(K) ==
    SortedIndexKeys({k \in K : IsIndexKey(k)})
        \o (IF \E k \in K : ~IsIndexKey(k) THEN <<CHOOSE k \in K : ~IsIndexKey(k)>> ELSE <<>>)

\* the score objects with key set K
Distributions(K) ==
    LET ks == KeySeq(K)
    IN  {[i \in DOMAIN ks |-> <<ks[i], f[ks[i]]>>] : f \in [K -> ScoreVals]}

\* classifier.run(features): some score for every output key of the network
RunOutputs(classifier) == Distributions(classifier.keys)

\* faulty variant: a score missing from the semantic object counts as zero
FuseMissingAsZero(phoneticPred_, semanticPred_) ==
    LET ks == OwnKeys(phoneticPred_)
    IN  FromEntries([i \in DOMAIN ks |->
            <<ks[i], JsMean(ObjGetOr(phoneticPred_, ks[i], 0),
                            ObjGetOr(semanticPred_, ks[i], 0))>>])

\* lines 66-68: one fused entry per key of phoneticPred
Fuse(phoneticPred_, semanticPred_) ==
    LET ks == OwnKeys(phoneticPred_)
    IN  FromEntries([i \in DOMAIN ks |->
            <<ks[i], JsMean(ObjGetOr(phoneticPred_, ks[i], UndefinedIndex),
                            ObjGetOr(semanticPred_, ks[i], UndefinedIndex))>>])

RECURSIVE ReduceGreater(_, _, _)
ReduceGreater(combined, a, rest) ==
    IF rest = <<>> THEN a
    ELSE ReduceGreater(combined,
                       IF JsGt(ObjGetOr(combined, a, NaN), ObjGetOr(combined, rest[1], NaN))
                       THEN a ELSE rest[1],
                       Tail(rest))

RECURSIVE ReduceGreaterOrEqual(_, _, _)
ReduceGreaterOrEqual(combined, a, rest) ==
    IF rest = <<>> THEN a
    ELSE ReduceGreaterOrEqual(combined,
                              IF ~JsGt(ObjGetOr(combined, rest[1], NaN), ObjGetOr(combined, a, NaN))
                              THEN a ELSE rest[1],
                              Tail(rest))

\* faulty variant: the running key is kept on a tie
ArgMaxKeepingFirst(combined) ==
    LET ks == OwnKeys(combined)
    IN  IF ks = <<>> THEN Throw ELSE Ok(ReduceGreaterOrEqual(combined, ks[1], Tail(ks)))

\* line 70: Object.keys(combinedPred).reduce((a, b) => combinedPred[a] >
\* combinedPred[b] ? a : b); reduce of an empty array with no initial value throws
ArgMax(combined) ==
    LET ks == OwnKeys(combined)
    IN  IF ks = <<>> THEN Throw ELSE Ok(ReduceGreater(combined, ks[1], Tail(ks)))

NoIndex == ""

\* predict(rawData), given what the two classifiers return
PredictOutcome(bands, mapping, data, phoneticPred_, semanticPred_) ==
    IF ExtractPhoneticFeatures(bands, data).threw \/ ExtractSemanticFeatures(bands, data).threw
    THEN [threw |-> TRUE, index |-> NoIndex, word |-> Undefined]
    ELSE LET predicted == ArgMax(Fuse(phoneticPred_, semanticPred_))
         IN  IF predicted.threw
             THEN [threw |-> TRUE, index |-> NoIndex, word |-> Undefined]
             ELSE [threw |-> FALSE, index |-> predicted.value,
                   word |-> DecodeIndex(mapping, predicted.value)]

\* --------------------------------------------------------- concept grounding
\* the fixed concept table of findUniversalConcept, in tenths
UniversalConcepts ==
    << <<"entity", <<1, 2, 3>>>>, <<"action", <<4, 5, 6>>>>, <<"state", <<7, 8, 9>>>> >>

\* the tables the decoder may have been loaded with (line 12); the constructor
\* itself leaves the table empty
EmbeddingTables == {<<>>, << <<"focus", <<7, 8, 10>>>> >>}

Dot(a, b) == a[1] * b[1] + a[2] * b[2] + a[3] * b[3]

\* cosineSimilarity(w, a) > cosineSimilarity(w, b), compared without the square
\* roots; with w the zero vector both sides are NaN and the comparison is false
CosineGreater(w, a, b) ==
    LET da == Dot(w, a)
        db == Dot(w, b)
        na == Dot(a, a)
        nb == Dot(b, b)
    IN  IF Dot(w, w) = 0 THEN FALSE
        ELSE IF da >= 0 /\ db < 0 THEN TRUE
        ELSE IF da < 0 /\ db >= 0 THEN FALSE
        ELSE IF da >= 0 THEN da * da * nb > db * db * na
        ELSE da * da * nb < db * db * na

RECURSIVE ReduceClosest(_, _, _)
ReduceClosest(wordVector, a, rest) ==
    IF rest = <<>> THEN a
    ELSE ReduceClosest(wordVector,
                       IF CosineGreater(wordVector, a[2], rest[1][2]) THEN a ELSE rest[1],
                       Tail(rest))

WordNotInVocabulary == "Word not in vocabulary"

\* faulty variant: no guard, the vector of an absent word is read and used
FindUniversalConceptUnguarded(embeddings, word) ==
    IF ~ObjHas(embeddings, WordKey(word)) THEN Throw
    ELSE Ok(ReduceClosest(ObjGetOr(embeddings, WordKey(word), <<0, 0, 0>>),
                          UniversalConcepts[1], Tail(UniversalConcepts))[1])

\* findUniversalConcept(word)
FindUniversalConcept(embeddings, word) ==
    IF ~ObjHas(embeddings, WordKey(word)) THEN Ok(WordNotInVocabulary)
    ELSE Ok(ReduceClosest(ObjGetOr(embeddings, WordKey(word), <<0, 0, 0>>),
                          UniversalConcepts[1], Tail(UniversalConcepts))[1])

\* --------------------------------------------------------- definition lookup
DefinitionNotFound == "Definition not found"

FoundDefinition == "a definition"

\* What axios.get settles with: a rejection (network error, non-2xx status), or
\* a response whose data is an array of entry objects.
NetworkError == [rejected |-> TRUE, data |-> <<>>]

Response(data) == [rejected |-> FALSE, data |-> data]

\* a definition object with or without its definition field
DefinitionObjects == {<<>>, << <<"definition", FoundDefinition>> >>}

\* an entry without meanings, or with one meaning holding one definition object
EntryObjects ==
    {<<>>} \cup {<< <<"meanings", << << <<"definitions", <<d>>>> >> >>>> >> : d \in DefinitionObjects}

Responses == {NetworkError} \cup {Response(d) : d \in SeqsUpTo(EntryObjects, 1)}

\* the first element's property, as response.data[0].meanings[0]... reads it:
\* reading a property of undefined throws, a missing property reads undefined
FirstProperty(array, name, missing) ==
    IF array = <<>> \/ ~ObjHas(array[1], name) THEN missing
    ELSE ObjGetOr(array[1], name, missing)

\* getNormalizedDefinition(word), given what the request settles with
GetNormalizedDefinition(response_) ==
    IF response_.rejected THEN Ok(DefinitionNotFound)
    ELSE IF response_.data = <<>> THEN Ok(DefinitionNotFound)
    ELSE IF ~ObjHas(response_.data[1], "meanings") THEN Ok(DefinitionNotFound)
    ELSE LET meanings == FirstProperty(response_.data, "meanings", <<>>)
         IN  IF meanings = <<>> THEN Ok(DefinitionNotFound)
             ELSE IF ~ObjHas(meanings[1], "definitions") THEN Ok(DefinitionNotFound)
             ELSE LET definitions == FirstProperty(meanings, "definitions", <<>>)
                  IN  IF definitions = <<>> THEN Ok(DefinitionNotFound)
                      ELSE Ok(FirstProperty(definitions, "definition", Undefined))

FullResponse ==
    LET definitionObject == << <<"definition", FoundDefinition>> >>
        meaningObject == << <<"definitions", <<definitionObject>>>> >>
        entryObject == << <<"meanings", <<meaningObject>>>> >>
    IN  Response(<<entryObject>>)

\* the lookup found no definition: the request was rejected, the result set is
\* empty or a field on the way to the definition is missing
LookupFailed(response_) == response_ # FullResponse

\* -------------------------------------------------------------------- state
VARIABLES
    frequencyBands, phoneticClassifier, semanticClassifier, wordMapping, wordEmbeddings,
    lastCall,
    pc, predictedWord, definition, universalConcept, result, events, response,
    rawData, phoneticFeatures, semanticFeatures,
    phoneticPred, semanticPred, combinedPred, predictedIndex

decoderVars ==
    <<frequencyBands, phoneticClassifier, semanticClassifier, wordMapping, wordEmbeddings>>
pipelineVars == <<pc, predictedWord, definition, universalConcept, result, events, response>>
featureVars == <<rawData, phoneticFeatures, semanticFeatures>>
fusionVars == <<phoneticPred, semanticPred, combinedPred>>
vars == <<decoderVars, lastCall, pipelineVars, featureVars, fusionVars, predictedIndex>>

NoCall ==
    [op |-> "none", labels |-> <<>>, arg |-> Undefined, outcome |-> "none",
     value |-> Undefined, index |-> NoIndex]

NoResult == [predictedWord |-> Undefined, definition |-> Undefined, universalConcept |-> Undefined]

\* lines 6-13
Constructed(bands) ==
    /\ frequencyBands = bands
    /\ phoneticClassifier = UntrainedClassifier
    /\ semanticClassifier = UntrainedClassifier
    /\ wordMapping = <<>>

NoPipeline ==
    /\ pc = "idle"
    /\ predictedWord = Undefined
    /\ definition = Undefined
    /\ universalConcept = Undefined
    /\ result = NoResult
    /\ events = <<>>
    /\ response = NetworkError

NoFeatures ==
    /\ rawData = <<>>
    /\ phoneticFeatures = Ok(<<>>)
    /\ semanticFeatures = Ok(<<>>)

NoFusion ==
    /\ phoneticPred = <<>>
    /\ semanticPred = <<>>
    /\ combinedPred = <<>>

Init ==
    /\ Constructed(DecoderBands)
    /\ wordEmbeddings \in EmbeddingTables
    /\ lastCall = NoCall
    /\ NoPipeline
    /\ NoFeatures
    /\ NoFusion
    /\ predictedIndex = NoIndex

\* --------------------------------------------------------------------- train
\* the samples train and predict are called with in the decoder's life: no
\* channel, one empty channel, one channel of one reading
CallSamples == {<<>>, <<<<>>>>, <<<<1>>>>}

\* control is with the caller: no call is running, or processAndPredict is
\* suspended at its await
CallerRuns == pc \in {"idle", "awaiting"}

TrainCall(y, outcome) ==
    [op |-> "train", labels |-> y, arg |-> Undefined, outcome |-> outcome,
     value |-> Undefined, index |-> NoIndex]

\* which network's train method throws, if any; on an empty data set the first
\* one called does
Throwers == {"none", "phonetic", "semantic"}

\* train(rawDataSamples, y), called with one label per sample
Train(rawDataSamples, y, thrower) ==
    /\ CallerRuns
    /\ Len(rawDataSamples) = Len(y)
    /\ LET featuresThrow ==
               \E i \in DOMAIN rawDataSamples :
                   \/ ExtractPhoneticFeatures(frequencyBands, rawDataSamples[i]).threw
                   \/ ExtractSemanticFeatures(frequencyBands, rawDataSamples[i]).threw
           mapping == AssignedWordMapping(wordMapping, y)
           keys == TrainingOutputKeys(Len(rawDataSamples), YEncoded(mapping, y))
           phoneticFails == thrower = "phonetic" \/ rawDataSamples = <<>>
           semanticFails == thrower = "semantic"
       IN  IF featuresThrow
           THEN /\ lastCall' = TrainCall(y, "threw in features")
                /\ UNCHANGED <<wordMapping, phoneticClassifier, semanticClassifier>>
           ELSE /\ wordMapping' = mapping
                /\ phoneticClassifier' =
                       IF phoneticFails THEN phoneticClassifier ELSE [keys |-> keys]
                /\ semanticClassifier' =
                       IF phoneticFails \/ semanticFails THEN semanticClassifier
                       ELSE [keys |-> keys]
                /\ lastCall' =
                       TrainCall(y, IF phoneticFails THEN "threw in phonetic train"
                                    ELSE IF semanticFails THEN "threw in semantic train"
                                    ELSE "returned")
    /\ UNCHANGED <<frequencyBands, wordEmbeddings, pipelineVars, featureVars, fusionVars,
                   predictedIndex>>

\* ------------------------------------------------------------------- predict
Trained == phoneticClassifier.keys # {} /\ semanticClassifier.keys # {}

PredictCall(outcome) ==
    [op |-> "predict", labels |-> <<>>, arg |-> Undefined,
     outcome |-> IF outcome.threw THEN "threw" ELSE "returned",
     value |-> outcome.word, index |-> outcome.index]

\* predict on the decoder as it is.  An untrained network gives run nothing to
\* return and line 66 or 67 throws.
PredictHere(data, phoneticPred_, semanticPred_) ==
    IF Trained
    THEN PredictOutcome(frequencyBands, wordMapping, data, phoneticPred_, semanticPred_)
    ELSE [threw |-> TRUE, index |-> NoIndex, word |-> Undefined]

\* faulty variant: predict keeps the inverse mapping it built in this.wordMapping
PredictStoringInverse(data, phoneticPred_, semanticPred_) ==
    /\ pc = "idle"
    /\ phoneticPred_ \in RunOutputs(phoneticClassifier)
    /\ semanticPred_ \in RunOutputs(semanticClassifier)
    /\ lastCall' = PredictCall(PredictHere(data, phoneticPred_, semanticPred_))
    /\ wordMapping' = InverseMapping(wordMapping)
    /\ UNCHANGED <<frequencyBands, phoneticClassifier, semanticClassifier, wordEmbeddings,
                   pipelineVars, featureVars, fusionVars, predictedIndex>>

\* predict(rawData) called directly
Predict(data, phoneticPred_, semanticPred_) ==
    /\ pc = "idle"
    /\ phoneticPred_ \in RunOutputs(phoneticClassifier)
    /\ semanticPred_ \in RunOutputs(semanticClassifier)
    /\ lastCall' = PredictCall(PredictHere(data, phoneticPred_, semanticPred_))
    /\ UNCHANGED <<decoderVars, pipelineVars, featureVars, fusionVars, predictedIndex>>

\* findUniversalConcept(word) called directly
Ground(word) ==
    /\ pc = "idle"
    /\ LET concept == FindUniversalConcept(wordEmbeddings, word)
       IN  lastCall' =
               [op |-> "findUniversalConcept", labels |-> <<>>, arg |-> word,
                outcome |-> IF concept.threw THEN "threw" ELSE "returned",
                value |-> IF concept.threw THEN Undefined ELSE concept.value,
                index |-> NoIndex]
    /\ UNCHANGED <<decoderVars, pipelineVars, featureVars, fusionVars, predictedIndex>>

\* ----------------------------------------------------------- processAndPredict
PipelineCall(outcome) ==
    [op |-> "processAndPredict", labels |-> <<>>, arg |-> Undefined, outcome |-> outcome,
     value |-> Undefined, index |-> NoIndex]

\* line 105: the call runs predict
ProcessAndPredict(data, phoneticPred_, semanticPred_) ==
    /\ pc = "idle"
    /\ phoneticPred_ \in RunOutputs(phoneticClassifier)
    /\ semanticPred_ \in RunOutputs(semanticClassifier)
    /\ LET outcome == PredictHere(data, phoneticPred_, semanticPred_)
       IN  IF outcome.threw
           THEN /\ pc' = "failed"
                /\ lastCall' = PipelineCall("threw")
                /\ UNCHANGED <<predictedWord, predictedIndex, events>>
           ELSE /\ pc' = "predicted"
                /\ lastCall' = PipelineCall("running")
                /\ predictedWord' = outcome.word
                /\ predictedIndex' = outcome.index
                /\ events' = <<"predict finished">>
    /\ UNCHANGED <<decoderVars, definition, universalConcept, result, response, featureVars,
                   fusionVars>>

\* lines 106 and 77: the request is sent and the call suspends
IssueLookup ==
    /\ pc = "predicted"
    /\ pc' = "awaiting"
    /\ events' = Append(events, "lookup started")
    /\ UNCHANGED <<decoderVars, lastCall, predictedWord, definition, universalConcept, result,
                   response, featureVars, fusionVars, predictedIndex>>

\* lines 77-81 and 106: the request settles and definition is assigned
LookupSettles(response_) ==
    /\ pc = "awaiting"
    /\ response' = response_
    /\ events' = Append(events, "lookup finished")
    /\ LET found == GetNormalizedDefinition(response_)
       IN  IF found.threw
           THEN /\ pc' = "failed"
                /\ lastCall' = PipelineCall("threw")
                /\ UNCHANGED definition
           ELSE /\ pc' = "resumed"
                /\ definition' = found.value
                /\ UNCHANGED lastCall
    /\ UNCHANGED <<decoderVars, predictedWord, universalConcept, result, featureVars,
                   fusionVars, predictedIndex>>

\* line 107
GroundPredictedWord ==
    /\ pc = "resumed"
    /\ LET concept == FindUniversalConcept(wordEmbeddings, predictedWord)
       IN  IF concept.threw
           THEN /\ pc' = "failed"
                /\ lastCall' = PipelineCall("threw")
                /\ events' = Append(events, "grounding started")
                /\ UNCHANGED universalConcept
           ELSE /\ pc' = "grounded"
                /\ universalConcept' = concept.value
                /\ events' = events \o <<"grounding started", "grounding finished">>
                /\ UNCHANGED lastCall
    /\ UNCHANGED <<decoderVars, predictedWord, definition, result, response, featureVars,
                   fusionVars, predictedIndex>>

\* faulty variant: the record is returned without waiting for the grounding
ReturnResultBeforeGrounding ==
    /\ pc = "resumed"
    /\ pc' = "done"
    /\ result' = [predictedWord |-> predictedWord, definition |-> definition,
                  universalConcept |-> universalConcept]
    /\ events' = Append(events, "result")
    /\ lastCall' = PipelineCall("returned")
    /\ UNCHANGED <<decoderVars, predictedWord, definition, universalConcept, response,
                   featureVars, fusionVars, predictedIndex>>

\* lines 109-113
ReturnResult ==
    /\ pc = "grounded"
    /\ pc' = "done"
    /\ result' = [predictedWord |-> predictedWord, definition |-> definition,
                  universalConcept |-> universalConcept]
    /\ events' = Append(events, "result")
    /\ lastCall' = PipelineCall("returned")
    /\ UNCHANGED <<decoderVars, predictedWord, definition, universalConcept, response,
                   featureVars, fusionVars, predictedIndex>>

\* the caller takes the settled promise; the decoder is ready for the next call
Settled ==
    /\ pc \in {"done", "failed"}
    /\ pc' = "idle"
    /\ predictedWord' = Undefined
    /\ definition' = Undefined
    /\ universalConcept' = Undefined
    /\ result' = NoResult
    /\ events' = <<>>
    /\ response' = NetworkError
    /\ predictedIndex' = NoIndex
    /\ UNCHANGED <<decoderVars, lastCall, featureVars, fusionVars>>

Next ==
    \/ \E y \in SeqsUpTo(Words, MaxLabels) :
           \E rawDataSamples \in [1..Len(y) -> CallSamples], thrower \in Throwers :
               Train(rawDataSamples, y, thrower)
    \/ \E data \in CallSamples, phoneticPred_ \in RunOutputs(phoneticClassifier),
          semanticPred_ \in RunOutputs(semanticClassifier) :
           Predict(data, phoneticPred_, semanticPred_)
    \/ \E word \in Words \cup {Undefined} : Ground(word)
    \/ \E data \in CallSamples, phoneticPred_ \in RunOutputs(phoneticClassifier),
          semanticPred_ \in RunOutputs(semanticClassifier) :
           ProcessAndPredict(data, phoneticPred_, semanticPred_)
    \/ IssueLookup
    \/ \E response_ \in Responses : LookupSettles(response_)
    \/ GroundPredictedWord
    \/ ReturnResult
    \/ Settled

Spec == Init /\ [][Next]_vars

\* ------------------------------------------- feature extraction on its own
\* lines 60-61 on every sample within the bounds, for every band configuration
InitFeatures ==
    /\ \E bands \in BandConfigs : Constructed(bands)
    /\ wordEmbeddings = <<>>
    /\ lastCall = NoCall
    /\ NoPipeline
    /\ rawData \in RawSamples
    /\ phoneticFeatures = Ok(<<>>)
    /\ semanticFeatures = Ok(<<>>)
    /\ NoFusion
    /\ predictedIndex = NoIndex

\* line 60
FeaturizePhonetic ==
    /\ pc = "idle"
    /\ pc' = "phonetic features"
    /\ phoneticFeatures' = ExtractPhoneticFeatures(frequencyBands, rawData)
    /\ UNCHANGED <<decoderVars, lastCall, predictedWord, definition, universalConcept, result,
                   events, response, rawData, semanticFeatures, fusionVars, predictedIndex>>

\* line 61
FeaturizeSemantic ==
    /\ pc = "phonetic features"
    /\ pc' = "semantic features"
    /\ semanticFeatures' = ExtractSemanticFeatures(frequencyBands, rawData)
    /\ UNCHANGED <<decoderVars, lastCall, predictedWord, definition, universalConcept, result,
                   events, response, rawData, phoneticFeatures, fusionVars, predictedIndex>>

NextFeatures == FeaturizePhonetic \/ FeaturizeSemantic

SpecFeatures == InitFeatures /\ [][NextFeatures]_vars

\* ----------------------------------------------- fusion and argmax on their own
ClassKeys == {KeyStr(i) : i \in 0..(MaxClasses - 1)}

\* what a classifier may return: scores for any set of class keys
ScoreObjects == UNION {Distributions(K) : K \in SUBSET ClassKeys}

\* lines 66-70 on every pair of score objects within the bounds
InitFusion ==
    /\ Constructed(DecoderBands)
    /\ wordEmbeddings = <<>>
    /\ lastCall = NoCall
    /\ NoPipeline
    /\ NoFeatures
    /\ phoneticPred \in ScoreObjects
    /\ semanticPred \in ScoreObjects
    /\ combinedPred = <<>>
    /\ predictedIndex = NoIndex

\* lines 66-68
FuseStep ==
    /\ pc = "idle"
    /\ pc' = "fused"
    /\ combinedPred' = Fuse(phoneticPred, semanticPred)
    /\ UNCHANGED <<decoderVars, lastCall, predictedWord, definition, universalConcept, result,
                   events, response, featureVars, phoneticPred, semanticPred, predictedIndex>>

\* line 70
ArgMaxStep ==
    /\ pc = "fused"
    /\ pc' = "reduced"
    /\ LET predicted == ArgMax(combinedPred)
       IN  /\ predictedIndex' = IF predicted.threw THEN NoIndex ELSE predicted.value
           /\ lastCall' =
                  [op |-> "predict", labels |-> <<>>, arg |-> Undefined,
                   outcome |-> IF predicted.threw THEN "threw" ELSE "returned",
                   value |-> Undefined, index |-> predictedIndex']
    /\ UNCHANGED <<decoderVars, predictedWord, definition, universalConcept, result, events,
                   response, featureVars, fusionVars>>

NextFusion == FuseStep \/ ArgMaxStep

SpecFusion == InitFusion /\ [][NextFusion]_vars

\* ------------------------------------------------------------------- claims
\* the train call that last ran got past feature extraction (lines 48-49), so
\* lines 51-53 were executed with its labels
TrainRebuiltMapping ==
    lastCall.op = "train" /\ lastCall.outcome # "threw in features"

FirstOccurrence(y, w) == CHOOSE i \in DOMAIN y : y[i] = w /\ \A j \in 1..(i - 1) : y[j] # w

IndexOf(w) == ObjGetOr(wordMapping, w, UndefinedIndex)

\* C1: after train(rawDataSamples, y) the label mapping is a bijection between
\* the distinct words of y and 0..distinctCount-1, indices follow the order of
\* first occurrence in y, and decoding the index of any word w of y through the
\* inverse mapping of predict gives w back.
C1_MappingIsBijection ==
    TrainRebuiltMapping =>
        LET y == lastCall.labels
            distinct == Range(y)
        IN  /\ KeySet(wordMapping) = distinct
            /\ {IndexOf(w) : w \in distinct} = 0..(Cardinality(distinct) - 1)
            /\ \A v, w \in distinct : v # w => IndexOf(v) # IndexOf(w)
            /\ \A v, w \in distinct :
                   FirstOccurrence(y, v) < FirstOccurrence(y, w) => IndexOf(v) < IndexOf(w)
            /\ \A w \in distinct : DecodeIndex(wordMapping, KeyStr(IndexOf(w))) = w

\* C1 witness: a train call whose first label is not the first word
\* alphabetically, decoded through the inverse mapping
C1_Witness ==
    /\ lastCall.op = "train"
    /\ lastCall.outcome = "returned"
    /\ lastCall.labels = <<"relax", "focus">>
    /\ IndexOf("relax") = 0
    /\ DecodeIndex(wordMapping, "1") = "focus"

\* C2: when the lookup fails, processAndPredict still completes with a result
\* whose definition is "Definition not found" and whose predictedWord and
\* universalConcept are what predict and findUniversalConcept gave; the failure
\* never reaches the caller.
C2_LookupFailureGivesPlaceholder ==
    (pc \in {"resumed", "grounded", "done", "failed"} /\ events # <<>> /\ LookupFailed(response)) =>
        /\ pc # "failed"
        /\ definition = DefinitionNotFound
        /\ pc = "done" =>
               /\ result.definition = DefinitionNotFound
               /\ result.predictedWord = predictedWord
               /\ result.universalConcept = FindUniversalConcept(wordEmbeddings, predictedWord).value

Before(e, f) ==
    \A i \in DOMAIN events : events[i] = f => \E j \in 1..(i - 1) : events[j] = e

\* C3: in every run of processAndPredict the decoding step has finished before
\* the lookup or the grounding starts, and the result record is produced only
\* after both the lookup and the grounding have finished.
C3_PipelineOrder ==
    /\ Before("predict finished", "lookup started")
    /\ Before("predict finished", "grounding started")
    /\ Before("lookup finished", "result")
    /\ Before("grounding finished", "result")
    /\ pc = "done" => \E i \in DOMAIN events : events[i] = "result"

\* C3 witness: a run that has produced its result record
C3_Witness ==
    /\ pc = "done"
    /\ events = <<"predict finished", "lookup started", "lookup finished",
                  "grounding started", "grounding finished", "result">>
    /\ result.predictedWord \in Words

\* a step that is a train call which got past feature extraction
TrainStep ==
    lastCall' # lastCall /\ lastCall'.op = "train" /\ lastCall'.outcome # "threw in features"

\* C4: a train call replaces the label mapping instead of merging into it: the
\* mapped words after the call are exactly the distinct words of its labels,
\* and no word mapped only by an earlier call stays mapped.
C4_TrainReplacesMapping ==
    [][TrainStep =>
          /\ KeySet(wordMapping') = Range(lastCall'.labels)
          /\ \A w \in KeySet(wordMapping) \ Range(lastCall'.labels) : ~ObjHas(wordMapping', w)]_vars

\* C4 witness: a pipeline run predicted "relax" from the mapping of an earlier
\* train call, and the train call made since, on the label "focus" alone, left
\* "relax" unmapped
C4_Witness ==
    /\ pc = "awaiting"
    /\ predictedWord = "relax"
    /\ lastCall.op = "train"
    /\ lastCall.outcome = "returned"
    /\ lastCall.labels = <<"focus">>
    /\ KeySet(wordMapping) = {"focus"}

Rectangular(data) == \A i, j \in DOMAIN data : Len(data[i]) = Len(data[j])

\* C5: for a rectangular sample of C channels and a decoder with B bands, both
\* extractPhoneticFeatures and extractSemanticFeatures return C * B values.
C5_FeatureLength ==
    (pc = "semantic features" /\ Rectangular(rawData)
         /\ ~phoneticFeatures.threw /\ ~semanticFeatures.threw) =>
        /\ Len(phoneticFeatures.value) = Len(rawData) * Len(frequencyBands)
        /\ Len(semanticFeatures.value) = Len(rawData) * Len(frequencyBands)

NoEntryFor(word) == ~ObjHas(wordEmbeddings, WordKey(word))

GroundingSentinel(sentinel) ==
    /\ (lastCall.op = "findUniversalConcept" /\ NoEntryFor(lastCall.arg)) =>
           lastCall.outcome = "returned" /\ lastCall.value = sentinel
    /\ (pc \in {"grounded", "done"} /\ NoEntryFor(predictedWord)) => universalConcept = sentinel
    /\ (pc = "failed" /\ events # <<>>) => events[Len(events)] # "grounding started"

C7_OnlyTrainMutates ==
    [][/\ wordEmbeddings' = wordEmbeddings
       /\ ~(lastCall' # lastCall /\ lastCall'.op = "train") =>
              UNCHANGED <<phoneticClassifier, semanticClassifier, wordMapping>>]_vars

\* C7 witness: a predict call that failed on a trained decoder
C7_Witness ==
    /\ lastCall.op = "predict"
    /\ lastCall.outcome = "threw"
    /\ Trained
    /\ wordMapping # <<>>

Score(o, k) == ObjGetOr(o, k, UndefinedIndex)

CommonKeys == KeySet(phoneticPred) \cap KeySet(semanticPred)

Fused == pc \in {"fused", "reduced"}

Reduced == pc = "reduced" /\ lastCall.outcome = "returned"

MeanOnCommonKeys ==
    \A k \in CommonKeys :
        2 * Score(combinedPred, k) = Score(phoneticPred, k) + Score(semanticPred, k)

\* C8 as stated: fusion is over the intersection of the two key sets: a common
\* key gets the mean of the two scores, a key of only one classifier is
\* dropped and cannot be the winning index.
C8_FusionOverIntersection ==
    Fused =>
        /\ KeySet(combinedPred) = CommonKeys
        /\ MeanOnCommonKeys
        /\ Reduced => predictedIndex \in CommonKeys

\* C8 as amended: fusion is over the keys of the phonetic classifier: a common
\* key gets the mean of the two scores, a key of the semantic classifier alone
\* is dropped, a key of the phonetic classifier alone is kept with the score
\* NaN, and the winning index is one of the phonetic keys.
C8_FusionOverPhoneticKeys ==
    Fused =>
        /\ KeySet(combinedPred) = KeySet(phoneticPred)
        /\ MeanOnCommonKeys
        /\ \A k \in KeySet(phoneticPred) \ KeySet(semanticPred) : Score(combinedPred, k) = NaN
        /\ \A k \in KeySet(semanticPred) \ KeySet(phoneticPred) : ~ObjHas(combinedPred, k)
        /\ Reduced => predictedIndex \in KeySet(phoneticPred)

\* C8 witness: the two classifiers share a key, each has a key of its own, and
\* the key of the phonetic classifier alone is the winning index
C8_Witness ==
    /\ Reduced
    /\ CommonKeys # {}
    /\ KeySet(semanticPred) \ KeySet(phoneticPred) # {}
    /\ predictedIndex \in KeySet(phoneticPred) \ KeySet(semanticPred)
    /\ Score(combinedPred, predictedIndex) = NaN

Position(k) == CHOOSE i \in DOMAIN OwnKeys(combinedPred) : OwnKeys(combinedPred)[i] = k

NoNaN == \A k \in KeySet(combinedPred) : Score(combinedPred, k) # NaN

Maximal(k) ==
    \A j \in KeySet(combinedPred) :
        \/ Score(combinedPred, j) = NaN
        \/ Score(combinedPred, k) # NaN /\ Score(combinedPred, j) <= Score(combinedPred, k)

\* C9 as stated: the reduction returns a key of maximal fused score, the first
\* such key in the iteration order of the fused object.
C9_ArgMaxFirstOfTies ==
    Reduced =>
        /\ Maximal(predictedIndex)
        /\ \A j \in KeySet(combinedPred) : Position(j) < Position(predictedIndex) => ~Maximal(j)

\* C9 as amended: when no fused score is NaN, the reduction returns a key of
\* maximal fused score, the last such key in the iteration order of the fused
\* object.
C9_ArgMaxLastOfTies ==
    (Reduced /\ NoNaN) =>
        /\ Maximal(predictedIndex)
        /\ \A j \in KeySet(combinedPred) : Position(j) > Position(predictedIndex) => ~Maximal(j)

\* C9 witness: two keys share the maximal score, a third has less, and the
\* later of the two is returned
C9_Witness ==
    /\ Reduced
    /\ NoNaN
    /\ \E j \in KeySet(combinedPred) :
           /\ Position(j) < Position(predictedIndex)
           /\ Score(combinedPred, j) = Score(combinedPred, predictedIndex)
    /\ \E j \in KeySet(combinedPred) : Score(combinedPred, j) < Score(combinedPred, predictedIndex)

\* C10: when the winning index has no entry in the label mapping predict
\* fails, so every word predict returns, to its caller or to processAndPredict,
\* is a word of the current label mapping.
C10_PredictReturnsMappedWord ==
    /\ (lastCall.op = "predict" /\ lastCall.outcome = "returned") =>
           ObjHas(wordMapping, lastCall.value)
    /\ pc = "predicted" => ObjHas(wordMapping, predictedWord)

====
